---- MODULE Spec2Model ----
(***************************************************************************)
(* MMSI validation against the Indonesian numbering plan                   *)
(* (validate_mmsi_indonesia.py): the classifier validate_mmsi with its     *)
(* helpers _extract_mid and _mid_in_range, and the batch runner            *)
(* analyze_csv.                                                            *)
(*                                                                         *)
(* A Python str is a sequence of characters; a character is a TLA+ string. *)
(* Besides the ASCII characters the alphabet holds two non-ASCII           *)
(* characters for which str.isdigit() is true: SUPERSCRIPT TWO (U+00B2,    *)
(* which int() rejects with ValueError) and ARABIC-INDIC DIGIT ONE         *)
(* (U+0661, which int() reads as 1).                                       *)
(***************************************************************************)
EXTENDS Integers, Sequences, FiniteSets

VARIABLES mmsi, pc, ret, rows, df

vars == <<mmsi, pc, ret, rows, df>>

----------------------------------------------------------------------------
(* Program constants *)

MID_MIN == 201
MID_MAX == 775
VALID_FIRST_DIGITS == {"2", "3", "4", "5", "6", "7"}
MMSI_LEN == 9
MID_WIDTH == 3
MaxMidStart == 2

----------------------------------------------------------------------------
(* Characters and the str methods the code calls *)

AsciiDigits == {"0", "1", "2", "3", "4", "5", "6", "7", "8", "9"}
SUP2 == "SUPERSCRIPT_TWO"
AR1 == "ARABIC_INDIC_ONE"

\* unicodedata: characters with Numeric_Type Digit or Decimal (str.isdigit)
IsDigitChar(c) == c \in AsciiDigits \cup {SUP2, AR1}

\* characters with a decimal value (category Nd), the ones int() accepts
IsDecimalChar(c) == c \in AsciiDigits \cup {AR1}

DecimalValue(c) ==
    CASE c = "0" -> 0 [] c = "1" -> 1 [] c = "2" -> 2 [] c = "3" -> 3
      [] c = "4" -> 4 [] c = "5" -> 5 [] c = "6" -> 6 [] c = "7" -> 7
      [] c = "8" -> 8 [] c = "9" -> 9 [] c = AR1 -> 1

IsSpaceChar(c) == c \in {" ", "\t"}

RECURSIVE lstrip(_)
lstrip(s) ==
    IF s # <<>> /\ IsSpaceChar(Head(s)) THEN lstrip(Tail(s)) ELSE s

RECURSIVE rstrip(_)
rstrip(s) ==
    IF s # <<>> /\ IsSpaceChar(s[Len(s)])
    THEN rstrip(SubSeq(s, 1, Len(s) - 1))
    ELSE s

\* strip() that forgets the trailing blanks
strip_left_only(s) == lstrip(s)

\* str.strip()
strip(s) == rstrip(lstrip(s))

\* str.isdigit(): non-empty and every character is a digit character
isdigit(s) == s # <<>> /\ \A i \in 1..Len(s) : IsDigitChar(s[i])

\* str.startswith(prefix)
startswith(s, prefix) ==
    Len(prefix) <= Len(s) /\ SubSeq(s, 1, Len(prefix)) = prefix

\* s[start:end] with 0 <= start <= end (Python slice, 0-based, end exclusive)
Slice(s, start, end) ==
    SubSeq(s, start + 1, IF end < Len(s) THEN end ELSE Len(s))

RECURSIVE DecimalNumber(_)
DecimalNumber(s) ==
    IF s = <<>> THEN 0
    ELSE 10 * DecimalNumber(SubSeq(s, 1, Len(s) - 1)) + DecimalValue(s[Len(s)])

----------------------------------------------------------------------------
(* Values: Optional[int] with the ValueError int() can raise, and the      *)
(* outcome of a call (a ValidationResult returned, or an exception).       *)

NoneMid == [tag |-> "None", v |-> 0]
IntMid(n) == [tag |-> "int", v |-> n]
ValueErrorMid == [tag |-> "ValueError", v |-> 0]

\* int(segment)
int(segment) ==
    IF segment # <<>> /\ \A i \in 1..Len(segment) : IsDecimalChar(segment[i])
    THEN IntMid(DecimalNumber(segment))
    ELSE ValueErrorMid

_extract_mid(s, start) ==
    LET end == start + MID_WIDTH
        segment == Slice(s, start, end)
    IN  IF end > Len(s) THEN NoneMid
        ELSE IF ~isdigit(segment) THEN NoneMid
        ELSE int(segment)

\* the range check with the upper bound exclusive
mid_in_range_exclusive(mid) ==
    mid.tag # "None" /\ MID_MIN <= mid.v /\ mid.v < MID_MAX

_mid_in_range(mid) ==
    mid.tag # "None" /\ MID_MIN <= mid.v /\ mid.v <= MID_MAX

Note(fmt, text, mid) == [fmt |-> fmt, text |-> text, mid |-> mid]

ValidationResult(is_valid, category, note) ==
    [kind |-> "return", is_valid |-> is_valid, category |-> category,
     note |-> note]

Raised(exc) ==
    [kind |-> "raise", is_valid |-> FALSE, category |-> exc,
     note |-> Note(exc, <<>>, NoneMid)]

\* the two returns that follow mid = _extract_mid(...): an exception
\* raised inside _extract_mid propagates out of validate_mmsi
MidResult(mid, category, okFmt, badFmt, text) ==
    IF mid.tag = "ValueError" THEN Raised("ValueError")
    ELSE IF _mid_in_range(mid)
         THEN ValidationResult(TRUE, category, Note(okFmt, text, mid))
         ELSE ValidationResult(FALSE, category, Note(badFmt, <<>>, mid))

----------------------------------------------------------------------------
(* validate_mmsi *)

\* an argument of validate_mmsi: None, or a str
None == [isNone |-> TRUE, str |-> <<>>]
Str(s) == [isNone |-> FALSE, str |-> s]

\* Ship stations (2-7)
ship_station_rule(m) ==
    MidResult(_extract_mid(m, 0), "ship_station",
              "MID {mid}", "MID {mid} di luar 201-775", <<>>)

\* the handheld rule reading the MID at offset 0, the leading 8 included
handheld_rule_offset0(m) ==
    MidResult(_extract_mid(m, 0), "handheld_vhf_dsc",
              "Prefix 8 dengan MID {mid}",
              "Setelah 8 bukan MID 201-775 (MID={mid})", <<>>)

\* Handheld DSC starts with 8
handheld_rule(m) ==
    MidResult(_extract_mid(m, 1), "handheld_vhf_dsc",
              "Prefix 8 dengan MID {mid}",
              "Setelah 8 bukan MID 201-775 (MID={mid})", <<>>)

\* the prefix-9 rule with the 98/99 and free_form tests before the fixed
\* prefixes, which are then never reached
prefix9_rule_fixed_last(m) ==
    IF startswith(m, <<"9", "8">>) \/ startswith(m, <<"9", "9">>)
    THEN MidResult(_extract_mid(m, 2), "auxiliary_craft",
                   "{mmsi[:2]} + MID {mid}", "MID {mid} di luar 201-775",
                   Slice(m, 0, 2))
    ELSE IF startswith(m, <<"9">>)
    THEN ValidationResult(FALSE, "free_form",
             Note("Prefix '9' tetapi bukan 970/972/974 atau 98/99 + MID",
                  <<>>, NoneMid))
    ELSE ValidationResult(TRUE, "ais_sart",
                          Note("970xxxxxx (AIS-SART)", <<>>, NoneMid))

\* Free-form prefix 9
prefix9_rule(m) ==
    IF startswith(m, <<"9", "7", "0">>)
    THEN ValidationResult(TRUE, "ais_sart",
                          Note("970xxxxxx (AIS-SART)", <<>>, NoneMid))
    ELSE IF startswith(m, <<"9", "7", "2">>)
    THEN ValidationResult(TRUE, "mob_msld",
                          Note("972xxxxxx (MOB/MSLD)", <<>>, NoneMid))
    ELSE IF startswith(m, <<"9", "7", "4">>)
    THEN ValidationResult(TRUE, "epirb_ais",
                          Note("974xxxxxx (EPIRB-AIS)", <<>>, NoneMid))
    ELSE IF startswith(m, <<"9", "8">>) \/ startswith(m, <<"9", "9">>)
    THEN MidResult(_extract_mid(m, 2), "auxiliary_craft",
                   "{mmsi[:2]} + MID {mid}", "MID {mid} di luar 201-775",
                   Slice(m, 0, 2))
    ELSE ValidationResult(FALSE, "free_form",
             Note("Prefix '9' tetapi bukan 970/972/974 atau 98/99 + MID",
                  <<>>, NoneMid))

\* the prefix-0 rule with the group_call test first
prefix0_rule_group_first(m) ==
    IF startswith(m, <<"0">>)
    THEN MidResult(_extract_mid(m, 1), "group_call",
                   "0 + MID {mid}", "MID {mid} di luar 201-775", <<>>)
    ELSE MidResult(_extract_mid(m, 2), "coast_station",
                   "00 + MID {mid}", "MID {mid} di luar 201-775", <<>>)

\* Group or coast stations start with 0
prefix0_rule(m) ==
    IF startswith(m, <<"0", "0">>)
    THEN MidResult(_extract_mid(m, 2), "coast_station",
                   "00 + MID {mid}", "MID {mid} di luar 201-775", <<>>)
    ELSE MidResult(_extract_mid(m, 1), "group_call",
                   "0 + MID {mid}", "MID {mid} di luar 201-775", <<>>)

\* the dispatch on mmsi[0], reached with a 9-character isdigit() string
dispatch(m) ==
    LET first_digit == m[1]
    IN  IF first_digit \in VALID_FIRST_DIGITS THEN ship_station_rule(m)
        ELSE IF first_digit = "8" THEN handheld_rule(m)
        ELSE IF first_digit = "9" THEN prefix9_rule(m)
        ELSE IF first_digit = "0" THEN prefix0_rule(m)
        ELSE ValidationResult(FALSE, "unknown",
                 Note("Prefix {first_digit} tidak dikenal",
                      <<first_digit>>, NoneMid))

validate_mmsi(arg) ==
    LET original == arg.str
        m == strip(arg.str)
    IN  IF arg.isNone
        THEN ValidationResult(FALSE, "unknown",
                              Note("MMSI kosong", <<>>, NoneMid))
        ELSE IF m = <<>>
        THEN ValidationResult(FALSE, "unknown",
                              Note("MMSI kosong", <<>>, NoneMid))
        ELSE IF ~isdigit(m)
        THEN ValidationResult(FALSE, "unknown",
                 Note("Mengandung karakter non-digit: {original}",
                      original, NoneMid))
        ELSE IF Len(m) # MMSI_LEN
        THEN ValidationResult(FALSE, "unknown",
                 Note("Panjang bukan 9 digit: {mmsi}", m, NoneMid))
        ELSE dispatch(m)

----------------------------------------------------------------------------
(* The arguments validate_mmsi is called with *)

MaxShort == 2
MaxPad == 1

Specials == {"a", " ", SUP2, AR1}
Alphabet == AsciiDigits \cup Specials

\* the characters the rules read are mmsi[0:5]; the rest only count for
\* isdigit() and len()
HeadLen == MaxMidStart + MID_WIDTH
Fill(c) == [i \in 1..(MMSI_LEN - HeadLen) |-> c]

\* every string of at most MaxShort characters
ShortStrings == UNION {[1..n -> Alphabet] : n \in 0..MaxShort}

SpoilDigits == {"0", "2", "8", "9"}
SpoilBase == {h \o Fill("0") : h \in [1..HeadLen -> SpoilDigits]}
Pads == UNION {[1..n -> {" "}] : n \in 0..MaxPad}

\* 9 ASCII digits: every head, over an all-0 and an all-9 tail
IsNineDigit(a) ==
    \E h \in [1..HeadLen -> AsciiDigits], c \in {"0", "9"} :
        a = Str(h \o Fill(c))

\* 9 characters, one of them not an ASCII digit, between blanks or not
IsSpoiled(a) ==
    \E s \in SpoilBase, p \in 1..MMSI_LEN, c \in Specials,
       l \in Pads, r \in Pads :
        a = Str(l \o [s EXCEPT ![p] = c] \o r)

\* all digits, 8, 9 or 10 of them, between blanks or not
IsOffLength(a) ==
    \E s \in SpoilBase, l \in Pads, r \in Pads :
        \/ a = Str(l \o SubSeq(s, 1, MMSI_LEN - 1) \o r)
        \/ a = Str(l \o s \o r)
        \/ a = Str(l \o s \o <<"0">> \o r)

\* a short string, between blanks or not
IsShort(a) ==
    \E s \in ShortStrings, l \in Pads, r \in Pads : a = Str(l \o s \o r)

IsArgument(a) ==
    \/ a = None
    \/ IsShort(a)
    \/ IsNineDigit(a)
    \/ IsSpoiled(a)
    \/ IsOffLength(a)

NoResult ==
    [kind |-> "none", is_valid |-> FALSE, category |-> "",
     note |-> Note("", <<>>, NoneMid)]

NoFrame == [kind |-> "none", records |-> <<>>, filled |-> {}]

----------------------------------------------------------------------------
(* One call of validate_mmsi *)

Init ==
    /\ IsArgument(mmsi)
    /\ pc = "call"
    /\ ret = NoResult
    /\ rows = <<>>
    /\ df = NoFrame

Validate ==
    /\ pc = "call"
    /\ ret' = validate_mmsi(mmsi)
    /\ pc' = "done"
    /\ UNCHANGED <<mmsi, rows, df>>

Next == Validate

Spec == Init /\ [][Next]_vars

----------------------------------------------------------------------------
(* analyze_csv: the mmsi column of the CSV, one cell text per record *)

MaxRecords == 2

\* pandas.read_csv reads an empty cell and the default NA tokens as <NA>
NaTokens == {<<>>, <<"N", "A">>}

read_csv(cells) ==
    [i \in 1..Len(cells) |->
        IF cells[i] \in NaTokens THEN None ELSE Str(cells[i])]

\* df["mmsi"].fillna("").str.strip()
fillna_strip(column) ==
    [i \in 1..Len(column) |->
        IF column[i].isNone THEN <<>> ELSE strip(column[i].str)]

\* df["mmsi"].apply(validate_mmsi)
apply_validate(column) ==
    [i \in 1..Len(column) |-> validate_mmsi(Str(column[i]))]

analyze_csv(cells) ==
    LET column == fillna_strip(read_csv(cells))
        results == apply_validate(column)
    IN  IF \E i \in 1..Len(results) : results[i].kind = "raise"
        THEN [kind |-> "raise", records |-> <<>>, filled |-> {}]
        ELSE [kind |-> "return",
              records |->
                  [i \in 1..Len(cells) |->
                      [mmsi |-> column[i],
                       mmsi_valid |-> results[i].is_valid,
                       mmsi_category |-> results[i].category,
                       mmsi_note |-> results[i].note]],
              filled |->
                  {i + 1 : i \in {j \in 1..Len(cells) :
                                      ~results[j].is_valid}}]

Cells ==
    { <<>>, <<" ">>, <<"N", "A">>,
      <<"2", "0", "1", "0", "0", "0", "0", "0", "0">>,
      <<" ", "2", "0", "1", "0", "0", "0", "0", "0", "0", " ">>,
      <<"7", "7", "6", "0", "0", "0", "0", "0", "0">>,
      <<"9", "7", "0", "1", "2", "3", "4", "5", "6">>,
      <<"9", "9", "0", "0", "0", "1", "2", "3", "4">>,
      <<"1", "0", "2", "0", "1", "5", "6", "7", "8">>,
      <<"1", "2", "a">>, <<" ", "1", "2", "a">>,
      <<"1", "2", "3", "4", "5">>,
      <<"2", "0", "1", "0", "0", "0", "0", "0", SUP2>>,
      <<"2", SUP2, "1", "0", "0", "0", "0", "0", "0">> }

InitBatch ==
    /\ rows \in UNION {[1..n -> Cells] : n \in 0..MaxRecords}
    /\ pc = "call"
    /\ df = NoFrame
    /\ mmsi = None
    /\ ret = NoResult

AnalyzeCsv ==
    /\ pc = "call"
    /\ df' = analyze_csv(rows)
    /\ pc' = "done"
    /\ UNCHANGED <<mmsi, ret, rows>>

NextBatch == AnalyzeCsv

SpecBatch == InitBatch /\ [][NextBatch]_vars

----------------------------------------------------------------------------
(* Vocabulary of the properties, stated without the operators above *)

Done == pc = "done"
Text == mmsi.str

DigitSeq == <<"0", "1", "2", "3", "4", "5", "6", "7", "8", "9">>
AsciiValue(c) == (CHOOSE i \in 1..Len(DigitSeq) : DigitSeq[i] = c) - 1
IsAscii(c) == \E i \in 1..Len(DigitSeq) : DigitSeq[i] = c
AllAscii(s) == \A i \in 1..Len(s) : IsAscii(s[i])
IsNineAscii(s) == Len(s) = 9 /\ AllAscii(s)

\* the integer written by the three digits at 0-based offset k
MidAt(s, k) ==
    100 * AsciiValue(s[k + 1]) + 10 * AsciiValue(s[k + 2])
      + AsciiValue(s[k + 3])
InRange(n) == 201 <= n /\ n <= 775

Blank(c) == c = " " \/ c = "\t"
Trimmed(s) ==
    LET solid == {i \in 1..Len(s) : ~Blank(s[i])}
    IN  IF solid = {} THEN <<>>
        ELSE SubSeq(s, CHOOSE i \in solid : \A j \in solid : i <= j,
                       CHOOSE i \in solid : \A j \in solid : j <= i)

Returns(valid, category) ==
    ret.kind = "return" /\ ret.is_valid = valid /\ ret.category = category
Decision(r) == <<r.kind, r.is_valid, r.category>>

Categories ==
    {"ship_station", "handheld_vhf_dsc", "ais_sart", "mob_msld",
     "epirb_ais", "auxiliary_craft", "free_form", "coast_station",
     "group_call", "unknown"}

----------------------------------------------------------------------------
(* Properties *)

\* C1: validate_mmsi never raises: every call, whatever the argument
\* (None, empty, blank, any characters, any length), ends by returning a
\* ValidationResult.
NeverRaises == Done => ret.kind = "return"

\* C2: a string of length 9 holding at least one character outside
\* '0'..'9' is classified invalid, unknown (whenever a result is returned;
\* C1 is the claim about raising).
NonDigitNineIsUnknown ==
    (Done /\ ~mmsi.isNone /\ Len(Text) = 9 /\ ~AllAscii(Text)
          /\ ret.kind = "return")
        => Returns(FALSE, "unknown")

\* C3: 9 decimal digits with first digit 2..7 are a ship_station, valid
\* iff the integer of digits 1-3 lies in [201, 775].
ShipStationRule ==
    (Done /\ ~mmsi.isNone /\ IsNineAscii(Text)
          /\ Text[1] \in {"2", "3", "4", "5", "6", "7"})
        => Returns(InRange(MidAt(Text, 0)), "ship_station")

ShipStationUpperBoundary ==
    /\ Done
    /\ Text = <<"7", "7", "5", "9", "9", "9", "9", "9", "9">>
    /\ Returns(TRUE, "ship_station")

\* C4: 9 decimal digits with first digit 9: 970 is a valid ais_sart, 972 a
\* valid mob_msld, 974 a valid epirb_ais whatever follows; otherwise 98 or
\* 99 is an auxiliary_craft, valid iff the integer of digits 3-5 lies in
\* [201, 775]; otherwise the result is an invalid free_form.
Prefix9Priority ==
    (Done /\ ~mmsi.isNone /\ IsNineAscii(Text) /\ Text[1] = "9")
        => LET p == SubSeq(Text, 1, 3)
           IN  IF p = <<"9", "7", "0">> THEN Returns(TRUE, "ais_sart")
               ELSE IF p = <<"9", "7", "2">> THEN Returns(TRUE, "mob_msld")
               ELSE IF p = <<"9", "7", "4">> THEN Returns(TRUE, "epirb_ais")
               ELSE IF Text[2] \in {"8", "9"}
               THEN Returns(InRange(MidAt(Text, 2)), "auxiliary_craft")
               ELSE Returns(FALSE, "free_form")

EpirbWhateverFollows ==
    /\ Done
    /\ Text = <<"9", "7", "4", "9", "9", "9", "9", "9", "9">>
    /\ Returns(TRUE, "epirb_ais")

\* C5: 9 decimal digits with first digit 0: with second digit 0 a
\* coast_station, valid iff the integer of digits 3-5 lies in [201, 775];
\* otherwise a group_call, valid iff the integer of digits 2-4 lies in
\* [201, 775]. Nothing that starts with 00 is a group_call.
Prefix0Rule ==
    (Done /\ ~mmsi.isNone /\ IsNineAscii(Text) /\ Text[1] = "0")
        => IF Text[2] = "0"
           THEN Returns(InRange(MidAt(Text, 2)), "coast_station")
           ELSE Returns(InRange(MidAt(Text, 1)), "group_call")

CoastStationValid ==
    /\ Done
    /\ Text = <<"0", "0", "2", "0", "1", "0", "0", "0", "0">>
    /\ Returns(TRUE, "coast_station")

\* C6: 9 decimal digits with first digit 8 are a handheld_vhf_dsc, valid
\* iff the integer of digits 2-4 lies in [201, 775].
HandheldRule ==
    (Done /\ ~mmsi.isNone /\ IsNineAscii(Text) /\ Text[1] = "8")
        => Returns(InRange(MidAt(Text, 1)), "handheld_vhf_dsc")

HandheldUpperBoundary ==
    /\ Done
    /\ Text = <<"8", "7", "7", "5", "0", "0", "0", "0", "0">>
    /\ Returns(TRUE, "handheld_vhf_dsc")

\* C7: the returned category is unknown exactly when the argument is
\* absent or empty after trimming, holds a character outside '0'..'9', is
\* all digits but not 9 of them, or is 9 digits with leading digit 1; and
\* unknown is always invalid.
UnknownCase ==
    \/ mmsi.isNone
    \/ LET s == Trimmed(Text)
       IN  \/ s = <<>>
           \/ ~AllAscii(s)
           \/ Len(s) # 9
           \/ s[1] = "1"

UnknownExactly ==
    (Done /\ ret.kind = "return")
        => /\ (ret.category = "unknown") <=> UnknownCase
           /\ ret.category = "unknown" => ~ret.is_valid

\* C8: a valid result meets the structure of its category: the identity
\* is 9 characters, each one of '0'..'9'; the category is neither unknown
\* nor free_form; ais_sart, mob_msld, epirb_ais start with 970, 972, 974;
\* ship_station, handheld_vhf_dsc, group_call, coast_station and
\* auxiliary_craft hold a MID in [201, 775] at offset 0, 1, 1, 2, 2.
ValidImpliesStructure ==
    (Done /\ ret.kind = "return" /\ ret.is_valid)
        => /\ ~mmsi.isNone
           /\ IsNineAscii(Trimmed(Text))
           /\ LET s == Trimmed(Text)
                  c == ret.category
              IN  /\ c \notin {"unknown", "free_form"}
                  /\ c = "ais_sart" => SubSeq(s, 1, 3) = <<"9", "7", "0">>
                  /\ c = "mob_msld" => SubSeq(s, 1, 3) = <<"9", "7", "2">>
                  /\ c = "epirb_ais" => SubSeq(s, 1, 3) = <<"9", "7", "4">>
                  /\ c = "ship_station" => InRange(MidAt(s, 0))
                  /\ c = "handheld_vhf_dsc" => InRange(MidAt(s, 1))
                  /\ c = "group_call" => InRange(MidAt(s, 1))
                  /\ c = "coast_station" => InRange(MidAt(s, 2))
                  /\ c = "auxiliary_craft" => InRange(MidAt(s, 2))

\* C9: analyze_csv returns as many records as it read, in the same order,
\* each with the three fields of validate_mmsi applied to the record's own
\* mmsi field (an absent or blank field being the empty identity), and
\* every mmsi_category is one of the ten tags.
BatchPerRecord ==
    Done
        => /\ df.kind = "return"
           /\ Len(df.records) = Len(rows)
           /\ \A i \in 1..Len(df.records) :
                LET rec == df.records[i]
                    r == validate_mmsi(Str(rec.mmsi))
                IN  /\ rec.mmsi = IF rows[i] \in NaTokens THEN <<>>
                                  ELSE Trimmed(rows[i])
                    /\ r.kind = "return"
                    /\ rec.mmsi_valid = r.is_valid
                    /\ rec.mmsi_category = r.category
                    /\ rec.mmsi_note = r.note
                    /\ rec.mmsi_category \in Categories

\* C10: surrounding whitespace never changes the decision: a string and
\* the same string with leading and trailing whitespace removed get the
\* same is_valid and category; the empty, digit and length checks read the
\* trimmed value, and only the non-digit note quotes the untrimmed one.
TrimInvariance ==
    (Done /\ ~mmsi.isNone)
        => /\ Decision(ret) = Decision(validate_mmsi(Str(Trimmed(Text))))
           /\ Trimmed(Text) = <<>> => ret.note.fmt = "MMSI kosong"
           /\ ret.note.fmt = "Mengandung karakter non-digit: {original}"
                => ret.note.text = Text
           /\ ret.note.fmt = "Panjang bukan 9 digit: {mmsi}"
                => ret.note.text = Trimmed(Text)

PaddedIdentityValid ==
    /\ Done
    /\ Text = <<" ", "2", "0", "2", "0", "0", "0", "0", "0", "0", " ">>
    /\ Returns(TRUE, "ship_station")

====
